---- MODULE Spec2Model ----
(***************************************************************************)
(* Model of gupiao/zt_filter_strategy.py: the limit-up stock screen.       *)
(*                                                                         *)
(* A DataFrame is a record [columns, index, rows]: the ordered column      *)
(* names, the row labels, and one function column-name -> cell per row.    *)
(* A cell is a record [t, m, e, s]: t = "nan" (None / NaN), t = "num" (the *)
(* number m * 10^e, kept normalised so that equal numbers are equal        *)
(* records) or t = "str" (the string s, a sequence of one-character        *)
(* strings).  Numbers are exact decimals; on the values the model draws    *)
(* every comparison the program makes comes out the same in float64.       *)
(*                                                                         *)
(* Column names are written in pinyin, TLA+ strings being ASCII:           *)
(*   daima = code (dai ma), mingcheng = name, zuixinjia / xianjia /        *)
(*   shoupanjia = the price candidates, zongshizhi / zongshizhi(yi) /      *)
(*   zongshizhi-yi = the market-cap candidates, lianxuzhangtingtianshu /   *)
(*   lianbanshu / lianbancishu = the consecutive-days candidates,          *)
(*   zhangtingtongji / bannianzhangtingcishu / jinbannianzhangtingcishu = *)
(*   the half-year-count candidates, jinbannianzhangtingcishu_jiexi = the  *)
(*   parsed helper column.                                                 *)
(***************************************************************************)
EXTENDS Integers, Sequences, FiniteSets, TLC

VARIABLES pc, df_zt, result, again, report, x, ret

vars == <<pc, df_zt, result, again, report, x, ret>>

----------------------------------------------------------------------------
(* Numbers and cells                                                       *)

RECURSIVE Pow10(_)
Pow10(n) == IF n <= 0 THEN 1 ELSE 10 * Pow10(n - 1)

RECURSIVE Norm(_, _)
\* The unique representation of m * 10^e: no trailing zero in m, and 0 = 0 * 10^0.
Norm(m, e) ==
    IF m = 0 THEN [m |-> 0, e |-> 0]
    ELSE IF m % 10 = 0 THEN Norm(m \div 10, e + 1)
    ELSE [m |-> m, e |-> e]

NaN == [t |-> "nan", m |-> 0, e |-> 0, s |-> <<>>]

Num(m, e) == [t |-> "num", m |-> Norm(m, e).m, e |-> Norm(m, e).e, s |-> <<>>]

Str(s) == [t |-> "str", m |-> 0, e |-> 0, s |-> s]

isna(c) == c.t = "nan"

\* a < b for two numbers (mantissas stay below 10^4 in absolute value, so a
\* difference of more than four decimal places decides by sign alone).
Less(a, b) ==
    IF a.e = b.e THEN a.m < b.m
    ELSE IF a.e > b.e
         THEN IF a.e - b.e > 4 THEN (IF a.m = 0 THEN 0 < b.m ELSE a.m < 0)
              ELSE a.m * Pow10(a.e - b.e) < b.m
         ELSE IF b.e - a.e > 4 THEN (IF b.m = 0 THEN a.m < 0 ELSE b.m > 0)
              ELSE a.m < b.m * Pow10(b.e - a.e)

\* Series comparisons: a NaN operand compares False.
LtNum(c, n) == c.t = "num" /\ Less(c, Num(n, 0))
GeNum(c, n) == c.t = "num" /\ ~Less(c, Num(n, 0))
EqNum(c, n) == c.t = "num" /\ c = Num(n, 0)

----------------------------------------------------------------------------
(* Python's int(str) and float(str) on strings over Alphabet               *)

Digits == {"0", "1", "2", "3", "4", "5", "6", "7", "8", "9"}

DigitVal(c) ==
    CASE c = "0" -> 0 [] c = "1" -> 1 [] c = "2" -> 2 [] c = "3" -> 3
      [] c = "4" -> 4 [] c = "5" -> 5 [] c = "6" -> 6 [] c = "7" -> 7
      [] c = "8" -> 8 [] c = "9" -> 9

RECURSIVE DigitsValue(_)
DigitsValue(s) ==
    IF s = <<>> THEN 0
    ELSE 10 * DigitsValue(SubSeq(s, 1, Len(s) - 1)) + DigitVal(s[Len(s)])

AllDigits(s) == \A i \in 1..Len(s) : s[i] \in Digits

\* int("...") : a non-empty run of digits, else ValueError.
PyInt(s) ==
    IF Len(s) >= 1 /\ AllDigits(s)
    THEN [ok |-> TRUE, val |-> Num(DigitsValue(s), 0)]
    ELSE [ok |-> FALSE, val |-> NaN]

Positions(s, ch) == {i \in 1..Len(s) : s[i] = ch}

\* float("...") : digits with at most one '.', at least one digit, else ValueError.
PyFloat(s) ==
    LET dots == Positions(s, ".")
        nodot == SelectSeq(s, LAMBDA c : c # ".")
        \* d: where the '.' stands (the end when there is none)
        d == IF dots = {} THEN Len(s) ELSE CHOOSE i \in dots : TRUE
    IN  IF Cardinality(dots) <= 1 /\ Len(nodot) >= 1 /\ AllDigits(nodot)
        THEN [ok |-> TRUE, val |-> Num(DigitsValue(nodot), -(Len(s) - d))]
        ELSE [ok |-> FALSE, val |-> NaN]

\* int(f) for a finite float f: truncation towards zero.
TruncInt(n) ==
    IF n.e >= 0 THEN n
    ELSE IF -n.e > 8 THEN Num(0, 0)
    ELSE IF n.m >= 0 THEN Num(n.m \div Pow10(-n.e), 0)
    ELSE Num(-((-n.m) \div Pow10(-n.e)), 0)

\* x.split('/')[0]
FirstPart(s) ==
    LET sl == Positions(s, "/")
        first == CHOOSE i \in sl : \A j \in sl : i <= j
    IN  SubSeq(s, 1, first - 1)

\* x.split('/')[1]: the characters between the first and the second '/'.
SecondPart(s) ==
    LET sl == Positions(s, "/")
        first == CHOOSE i \in sl : \A j \in sl : i <= j
        rest == {j \in sl : j > first}
        stop == IF rest = {} THEN Len(s) + 1 ELSE CHOOSE j \in rest : \A k \in rest : j <= k
    IN  SubSeq(s, first + 1, stop - 1)

extract_half_year_times(c) ==
    IF isna(c) THEN Num(0, 0)
    ELSE IF c.t = "str" /\ Positions(c.s, "/") # {}
         THEN LET r == PyInt(SecondPart(c.s))
              IN  IF r.ok THEN r.val ELSE Num(0, 0)
         ELSE LET f == IF c.t = "str" THEN PyFloat(c.s) ELSE [ok |-> TRUE, val |-> c]
              IN  IF f.ok THEN TruncInt(f.val) ELSE Num(0, 0)

----------------------------------------------------------------------------
(* DataFrames                                                              *)

None == "None"

EmptyFrame == [columns |-> <<>>, index |-> <<>>, rows |-> <<>>]

Range(q) == {q[i] : i \in 1..Len(q)}

\* df.empty: no rows or no columns.
empty(df) == Len(df.rows) = 0 \/ Len(df.columns) = 0

HasCol(df, c) == c \in Range(df.columns)

\* next((c for c in cands if c in data.columns), None)
ResolveColumn(cands, df) ==
    LET hits == {i \in 1..Len(cands) : HasCol(df, cands[i])}
    IN  IF hits = {} THEN None
        ELSE cands[CHOOSE i \in hits : \A j \in hits : i <= j]

col_code == "daima"
col_name == "mingcheng"
price_cols == <<"zuixinjia", "xianjia", "shoupanjia">>
mktcap_cols == <<"zongshizhi", "zongshizhi(yi)", "zongshizhi-yi">>
lianban_cols == <<"lianxuzhangtingtianshu", "lianbanshu", "lianbancishu">>
times_cols == <<"zhangtingtongji", "bannianzhangtingcishu", "jinbannianzhangtingcishu">>
parsed_col == "jinbannianzhangtingcishu_jiexi"

\* data[c] = vals: overwrite column c, or append it.
AssignColumn(df, c, vals) ==
    [columns |-> IF HasCol(df, c) THEN df.columns ELSE Append(df.columns, c),
     index |-> df.index,
     rows |-> [i \in 1..Len(df.rows) |->
                 [k \in Range(df.columns) \cup {c} |->
                     IF k = c THEN vals[i] ELSE df.rows[i][k]]]]

\* df[cols] for columns that are all present.
Project(df, cols) ==
    [columns |-> cols,
     index |-> df.index,
     rows |-> [i \in 1..Len(df.rows) |-> [k \in Range(cols) |-> df.rows[i][k]]]]

to_numeric_zero(c) ==
    IF c.t = "num" THEN c
    ELSE IF c.t = "str" /\ PyFloat(c.s).ok THEN PyFloat(c.s).val
    ELSE Num(0, 0)

\* pd.to_numeric(..., errors="coerce") on one cell.
to_numeric(c) ==
    IF c.t = "num" THEN c
    ELSE IF c.t = "str" /\ PyFloat(c.s).ok THEN PyFloat(c.s).val
    ELSE NaN

\* Series.max(): the largest non-null cell, NaN when there is none.
SeriesMax(df, col) ==
    LET nums == {i \in 1..Len(df.rows) : df.rows[i][col].t = "num"}
    IN  IF nums = {} THEN NaN
        ELSE df.rows[CHOOSE i \in nums :
                        \A j \in nums : ~Less(df.rows[i][col], df.rows[j][col])][col]

\* x / 1e8 on one cell.
Div1e8(c) == IF c.t = "num" THEN Num(c.m, c.e - 8) ELSE c

\* Lines 76-92: the half-year count parsed out of the composite column.
ParseTimes(data, col_times) ==
    IF col_times = "zhangtingtongji" /\ HasCol(data, col_times)
    THEN AssignColumn(data, parsed_col,
             [i \in 1..Len(data.rows) |-> extract_half_year_times(data.rows[i][col_times])])
    ELSE data

TimesColumn(data, col_times) ==
    IF col_times = "zhangtingtongji" /\ HasCol(data, col_times)
    THEN parsed_col ELSE col_times

\* Lines 94-102.
missing(col_price, col_mktcap, col_lianban, col_times) ==
    (IF col_price = None THEN <<"zuixinjia">> ELSE <<>>)
    \o (IF col_mktcap = None THEN <<"zongshizhi">> ELSE <<>>)
    \o (IF col_lianban = None THEN <<"lianxuzhangtingtianshu">> ELSE <<>>)
    \o (IF col_times = None THEN <<"zhangtingtongji">> ELSE <<>>)

PassThroughWhole(data) == data

PassThroughSwapped(data) ==
    IF HasCol(data, col_code) /\ HasCol(data, col_name)
    THEN Project(data, <<col_name, col_code>>)
    ELSE data

\* Line 107.
PassThrough(data) ==
    IF HasCol(data, col_code) /\ HasCol(data, col_name)
    THEN Project(data, <<col_code, col_name>>)
    ELSE data

\* Lines 110-112.
Coerce(data, cols) ==
    [data EXCEPT !.rows =
        [i \in 1..Len(data.rows) |->
            [k \in Range(data.columns) |->
                IF k \in Range(cols) THEN to_numeric(data.rows[i][k])
                ELSE data.rows[i][k]]]]

IsYuanAnyNumber(max_mktcap) == max_mktcap.t = "num"

IsYuanFrom1000(max_mktcap) == max_mktcap.t = "num" /\ ~Less(max_mktcap, Num(1000, 0))

\* Line 117: pd.notna(max_mktcap) and max_mktcap > 1000
IsYuan(max_mktcap) == max_mktcap.t = "num" /\ Less(Num(1000, 0), max_mktcap)

\* Lines 115-118.
NormalizeMktcap(data, col_mktcap) ==
    IF IsYuan(SeriesMax(data, col_mktcap))
    THEN AssignColumn(data, col_mktcap,
             [i \in 1..Len(data.rows) |-> Div1e8(data.rows[i][col_mktcap])])
    ELSE data

\* Lines 121-125, on one row.
cond_price_le(row, col_price) == row[col_price].t = "num" /\ ~Less(Num(30, 0), row[col_price])
cond_price(row, col_price) == LtNum(row[col_price], 30)
cond_mktcap(row, col_mktcap) == LtNum(row[col_mktcap], 200)
cond_times(row, col_times) == GeNum(row[col_times], 3)
cond_lianban_lt4(row, col_lianban) == LtNum(row[col_lianban], 4)
cond_first_board_absent(row, col_lianban) == TRUE
cond_first_board(row, col_lianban) == EqNum(row[col_lianban], 1)

\* Line 127: the rows the mask keeps, in order, with their labels.
Kept(data, col_price, col_mktcap, col_lianban, col_times) ==
    {i \in 1..Len(data.rows) :
        /\ cond_price(data.rows[i], col_price)
        /\ cond_mktcap(data.rows[i], col_mktcap)
        /\ cond_times(data.rows[i], col_times)
        /\ cond_lianban_lt4(data.rows[i], col_lianban)
        /\ cond_first_board(data.rows[i], col_lianban)}

RECURSIVE Positions2Seq(_, _)
\* The members of a set of positions, ascending.
Positions2Seq(S, n) ==
    IF n = 0 THEN <<>>
    ELSE IF n \in S THEN Append(Positions2Seq(S, n - 1), n)
    ELSE Positions2Seq(S, n - 1)

\* df.take(perm): rows and labels at the positions perm, in that order.
Take(df, perm) ==
    [columns |-> df.columns,
     index |-> [i \in 1..Len(perm) |-> df.index[perm[i]]],
     rows |-> [i \in 1..Len(perm) |-> df.rows[perm[i]]]]

\* Lines 130-138.
keep_cols(col_price, col_mktcap, col_lianban, col_times) ==
    <<col_code, col_name, col_price, col_mktcap, col_lianban, col_times>>

\* Lines 143-154: the display label of a kept column.
rename_map(c, col_price, col_mktcap, col_lianban, col_times) ==
    IF c = col_times THEN "jinbannianzhangtingcishu"
    ELSE IF c = col_lianban THEN "lianbanshu"
    ELSE IF c = col_mktcap THEN "zongshizhi(yi)"
    ELSE IF c = col_price THEN "zuixinjia"
    ELSE c

\* Line 156: filtered.rename(columns=rename_map).
rename(df, col_price, col_mktcap, col_lianban, col_times) ==
    LET new(c) == rename_map(c, col_price, col_mktcap, col_lianban, col_times)
        old(n) == CHOOSE c \in Range(df.columns) : new(c) = n
    IN  [columns |-> [i \in 1..Len(df.columns) |-> new(df.columns[i])],
         index |-> df.index,
         rows |-> [i \in 1..Len(df.rows) |->
                     [n \in {new(c) : c \in Range(df.columns)} |-> df.rows[i][old(n)]]]]

\* One sort key: NaN sorts last whatever the direction.
KeyBefore(a, b, ascending) ==
    IF a.t # "num" THEN FALSE
    ELSE IF b.t # "num" THEN TRUE
    ELSE IF ascending THEN Less(a, b) ELSE Less(b, a)

\* Lines 159-162: by = [count, days, cap], ascending = [False, False, True].
RowBefore(r1, r2) ==
    LET t1 == r1["jinbannianzhangtingcishu"]  t2 == r2["jinbannianzhangtingcishu"]
        l1 == r1["lianbanshu"]                l2 == r2["lianbanshu"]
        m1 == r1["zongshizhi(yi)"]            m2 == r2["zongshizhi(yi)"]
    IN  \/ KeyBefore(t1, t2, FALSE)
        \/ /\ ~KeyBefore(t2, t1, FALSE)
           /\ \/ KeyBefore(l1, l2, FALSE)
              \/ /\ ~KeyBefore(l2, l1, FALSE)
                 /\ KeyBefore(m1, m2, TRUE)

RECURSIVE InsertUnstable(_, _, _)
InsertUnstable(df, perm, p) ==
    IF perm = <<>> THEN <<p>>
    ELSE IF ~RowBefore(df.rows[perm[Len(perm)]], df.rows[p])
         THEN Append(InsertUnstable(df, SubSeq(perm, 1, Len(perm) - 1), p), perm[Len(perm)])
         ELSE Append(perm, p)

RECURSIVE InsertStable(_, _, _)
\* perm with position p inserted after every position whose row is not after p's.
InsertStable(df, perm, p) ==
    IF perm = <<>> THEN <<p>>
    ELSE IF RowBefore(df.rows[p], df.rows[perm[Len(perm)]])
         THEN Append(InsertStable(df, SubSeq(perm, 1, Len(perm) - 1), p), perm[Len(perm)])
         ELSE Append(perm, p)

RECURSIVE SortPerm(_, _)
\* The stable sorting permutation of the first n rows (np.lexsort).
SortPerm(df, n) ==
    IF n = 0 THEN <<>> ELSE InsertStable(df, SortPerm(df, n - 1), n)

\* Lines 159-163.
sort_values(df) == Take(df, SortPerm(df, Len(df.rows)))

\* Line 165: reset_index(drop=True).
reset_index(df) == [df EXCEPT !.index = [i \in 1..Len(df.rows) |-> i - 1]]

Returned(df) == [raised |-> FALSE, value |-> df]
Raised == [raised |-> TRUE, value |-> EmptyFrame]

\* Lines 109-166: the path taken when all four fields resolved.  Every
\* "if col_..." test of these lines is then true, so the all-True default
\* masks of lines 121-125 and the shorter keep_cols are never built.
FilterResolved(data0, col_price, col_mktcap, col_lianban, col_times) ==
    LET data1 == Coerce(data0, <<col_price, col_mktcap, col_lianban, col_times>>)
        data == NormalizeMktcap(data1, col_mktcap)
        filtered == Take(data, Positions2Seq(
                        Kept(data, col_price, col_mktcap, col_lianban, col_times),
                        Len(data.rows)))
        keep == keep_cols(col_price, col_mktcap, col_lianban, col_times)
    IN  IF ~(Range(keep) \subseteq Range(filtered.columns))
        THEN Raised     \* line 140: KeyError
        ELSE Returned(reset_index(sort_values(
                 rename(Project(filtered, keep),
                        col_price, col_mktcap, col_lianban, col_times))))

\* Lines 46-166.
filter_stocks(df) ==
    IF empty(df) THEN Returned(df)
    ELSE
    LET col_price == ResolveColumn(price_cols, df)
        col_mktcap == ResolveColumn(mktcap_cols, df)
        col_lianban == ResolveColumn(lianban_cols, df)
        col_times0 == ResolveColumn(times_cols, df)
        data == ParseTimes(df, col_times0)
        col_times == TimesColumn(df, col_times0)
    IN  IF missing(col_price, col_mktcap, col_lianban, col_times) # <<>>
        THEN Returned(PassThrough(data))
        ELSE FilterResolved(data, col_price, col_mktcap, col_lianban, col_times)

----------------------------------------------------------------------------
(* The input tables                                                        *)

MaxRows == 2
MaxSortRows == 3
MaxNormRows == 3
MaxLen == 3

Chars(q) == [i \in 1..Len(q) |-> q[i]]

DigitChar(i) == CASE i = 1 -> "1" [] i = 2 -> "2" [] i = 3 -> "3" [] i = 4 -> "4"
                  [] OTHER -> "9"

\* The cell of column k in row i of a table with the columns cols: the code
\* and name are the row's own, a field's value stands in the candidate column
\* that resolves and NaN in the candidates it shadows.
CellOf(cols, k, i, v) ==
    LET df == [columns |-> cols]
    IN  IF k = col_code THEN Str(<<"s", DigitChar(i)>>)
        ELSE IF k = col_name THEN Str(<<"n", DigitChar(i)>>)
        ELSE IF k = ResolveColumn(price_cols, df) THEN v.price
        ELSE IF k = ResolveColumn(mktcap_cols, df) THEN v.mktcap
        ELSE IF k = ResolveColumn(lianban_cols, df) THEN v.lianban
        ELSE IF k = ResolveColumn(times_cols, df) THEN v.times
        ELSE NaN

MkTable(cols, vals) ==
    [columns |-> cols,
     index |-> [i \in 1..Len(vals) |-> i - 1],
     rows |-> [i \in 1..Len(vals) |-> [k \in Range(cols) |-> CellOf(cols, k, i, vals[i])]]]

TablesOf(cols, RowVals, n) ==
    {MkTable(cols, vals) : vals \in UNION {[1..m -> RowVals] : m \in 1..n}}

\* The provider's usual columns, the count in the composite "total/half-year" form.
UsualColumns ==
    <<"daima", "mingcheng", "zuixinjia", "zongshizhi", "lianxuzhangtingtianshu",
      "zhangtingtongji">>

\* Rows around every threshold, market caps in yuan and in hundred-million yuan.
RichVals ==
    [price : {Num(29, 0), Num(30, 0)},
     mktcap : {Num(150, 0), Num(250, 0), Num(5, 9), Num(3, 10)},
     lianban : {Num(1, 0), Num(2, 0)},
     times : {Str(<<"5", "/", "2">>), Str(<<"5", "/", "3">>), Str(<<"9", "/", "5">>)}]

\* Rows with non-numeric and missing cells.
CoerceVals ==
    [price : {Num(29, 0), Str(<<"a", "b">>), NaN},
     mktcap : {Num(150, 0), Num(250, 0), Num(5, 9), NaN},
     lianban : {Num(1, 0), Str(<<"x">>)},
     times : {Str(<<"5", "/", "3">>)}]

\* One qualifying and one failing row, for the tables whose columns vary.
PlainVals ==
    {[price |-> Num(29, 0), mktcap |-> Num(150, 0), lianban |-> Num(1, 0), times |-> Num(3, 0)],
     [price |-> Num(30, 0), mktcap |-> Num(150, 0), lianban |-> Num(1, 0), times |-> Num(5, 0)]}

\* A field's columns: none, the first candidate, the third, or the third and the second.
ColumnChoices(cands) == {<<>>, <<cands[1]>>, <<cands[3]>>, <<cands[3], cands[2]>>}

Schemas ==
    {id \o p \o m \o l \o t :
        id \in {<<col_code, col_name>>, <<col_name>>, <<col_code>>, <<>>},
        p \in ColumnChoices(price_cols), m \in ColumnChoices(mktcap_cols),
        l \in ColumnChoices(lianban_cols), t \in ColumnChoices(times_cols)}

\* df is one of the tables filter_stocks is given: up to MaxRows rows on the
\* usual columns, or on any of the column sets above.
FilterInput(df) ==
    \E n \in 1..MaxRows :
        \/ \E vals \in [1..n -> RichVals] : df = MkTable(UsualColumns, vals)
        \/ \E vals \in [1..n -> CoerceVals] : df = MkTable(UsualColumns, vals)
        \/ \E cols \in Schemas \ {<<>>} :
              \E vals \in [1..n -> PlainVals] : df = MkTable(cols, vals)

HeaderOnly == [columns |-> UsualColumns, index |-> <<>>, rows |-> <<>>]

----------------------------------------------------------------------------
(* main(): fetch, display, filter, report                                  *)

NoResult == Returned(EmptyFrame)

Init ==
    /\ pc = "start"
    /\ df_zt = EmptyFrame
    /\ result = NoResult
    /\ again = NoResult
    /\ report = "none"
    /\ x = NaN
    /\ ret = NaN

\* Lines 24-43 and 185: the provider returns a table with rows, a table
\* without (no columns at all, or a header only), or raises; a raise is
\* caught and becomes the empty DataFrame.
get_limit_up_stocks ==
    /\ pc = "start"
    /\ \/ FilterInput(df_zt')                      \* line 40: a table with rows
       \/ df_zt' \in {EmptyFrame, HeaderOnly}      \* line 40: a table without rows
       \/ df_zt' = EmptyFrame                      \* lines 41-43: the call raised
    /\ pc' = "fetched"
    /\ UNCHANGED <<result, again, report, x, ret>>

\* Lines 187-189.
ReportNoData ==
    /\ pc = "fetched"
    /\ empty(df_zt)
    /\ report' = "no data"
    /\ pc' = "done"
    /\ UNCHANGED <<df_zt, result, again, x, ret>>

\* Lines 191-264: the full list is printed (its unit conversion sits in a try).
DisplayAll ==
    /\ pc = "fetched"
    /\ ~empty(df_zt)
    /\ pc' = "displayed"
    /\ UNCHANGED <<df_zt, result, again, report, x, ret>>

\* Line 266: an exception of filter_stocks is not caught and ends main.
CallFilter ==
    /\ pc = "displayed"
    /\ result' = filter_stocks(df_zt)
    /\ pc' = IF result'.raised THEN "raised" ELSE "filtered"
    /\ UNCHANGED <<df_zt, again, report, x, ret>>

\* Lines 268-270.
ReportNoRows ==
    /\ pc = "filtered"
    /\ empty(result.value)
    /\ report' = "no qualifying rows"
    /\ pc' = "done"
    /\ UNCHANGED <<df_zt, result, again, x, ret>>

\* Lines 272-277.
ReportList ==
    /\ pc = "filtered"
    /\ ~empty(result.value)
    /\ report' = "list"
    /\ pc' = "done"
    /\ UNCHANGED <<df_zt, result, again, x, ret>>

Next ==
    \/ get_limit_up_stocks
    \/ ReportNoData
    \/ DisplayAll
    \/ CallFilter
    \/ ReportNoRows
    \/ ReportList

Spec == Init /\ [][Next]_vars

----------------------------------------------------------------------------
(* filter_stocks as a function: applied to a table, then to its own result *)

InitFilter ==
    /\ pc = "call"
    /\ FilterInput(df_zt)
    /\ result = NoResult
    /\ again = NoResult
    /\ report = "none"
    /\ x = NaN
    /\ ret = NaN

FilterOnce ==
    /\ pc = "call"
    /\ result' = filter_stocks(df_zt)
    /\ pc' = IF result'.raised THEN "raised" ELSE "filtered"
    /\ UNCHANGED <<df_zt, again, report, x, ret>>

FilterAgain ==
    /\ pc = "filtered"
    /\ again' = filter_stocks(result.value)
    /\ pc' = "refiltered"
    /\ UNCHANGED <<df_zt, result, report, x, ret>>

NextFilter == FilterOnce \/ FilterAgain

SpecFilter == InitFilter /\ [][NextFilter]_vars

----------------------------------------------------------------------------
(* extract_half_year_times as a function                                   *)

ParseAlphabet == {"2", "3", "5", "7", ".", "/", "x", "a", "b", "c"}

ParseInputs ==
    {NaN, Num(7, 0), Num(79, -1)}
    \cup {Str(Chars(q)) : q \in UNION {[1..n -> ParseAlphabet] : n \in 0..MaxLen}}

InitParse ==
    /\ pc = "parse"
    /\ x \in ParseInputs
    /\ ret = NaN
    /\ df_zt = EmptyFrame
    /\ result = NoResult
    /\ again = NoResult
    /\ report = "none"

\* Line 91: the parser applied to one cell of the composite column.
ApplyParser ==
    /\ pc = "parse"
    /\ ret' = extract_half_year_times(x)
    /\ pc' = "parsed"
    /\ UNCHANGED <<df_zt, result, again, report, x>>

NextParse == ApplyParser

SpecParse == InitParse /\ [][NextParse]_vars

----------------------------------------------------------------------------
(* The sort step as a function                                             *)

OutputColumns ==
    <<"daima", "mingcheng", "zuixinjia", "zongshizhi(yi)", "lianbanshu",
      "jinbannianzhangtingcishu">>

SortVals ==
    [price : {Num(29, 0)},
     mktcap : {Num(10, 0), Num(30, 0), Num(50, 0)},
     lianban : {Num(2, 0), Num(4, 0)},
     times : {Num(3, 0), Num(5, 0)}]

SortInputs == TablesOf(OutputColumns, SortVals, MaxSortRows)

InitSort ==
    /\ pc = "sort"
    /\ df_zt \in SortInputs
    /\ result = NoResult
    /\ again = NoResult
    /\ report = "none"
    /\ x = NaN
    /\ ret = NaN

\* Lines 159-165.
SortStep ==
    /\ pc = "sort"
    /\ result' = Returned(reset_index(sort_values(df_zt)))
    /\ pc' = "sorted"
    /\ UNCHANGED <<df_zt, again, report, x, ret>>

NextSort == SortStep

SpecSort == InitSort /\ [][NextSort]_vars

----------------------------------------------------------------------------
(* The unit normalisation step, then the whole filter on the same table    *)

NormVals ==
    [price : {Num(29, 0)},
     mktcap : {NaN, Num(50, 0), Num(80, 0), Num(120, 0), Num(1000, 0), Num(1001, 0),
               Num(5, 9), Num(8, 9)},
     lianban : {Num(1, 0)},
     times : {Str(<<"5", "/", "3">>)}]

NormInputs == TablesOf(UsualColumns, NormVals, MaxNormRows)

InitNorm ==
    /\ pc = "normalize"
    /\ df_zt \in NormInputs
    /\ result = NoResult
    /\ again = NoResult
    /\ report = "none"
    /\ x = NaN
    /\ ret = NaN

\* Lines 114-118.
NormalizeStep ==
    /\ pc = "normalize"
    /\ result' = Returned(NormalizeMktcap(df_zt, "zongshizhi"))
    /\ pc' = "normalized"
    /\ UNCHANGED <<df_zt, again, report, x, ret>>

FilterNormalized ==
    /\ pc = "normalized"
    /\ again' = filter_stocks(df_zt)
    /\ pc' = "filtered"
    /\ UNCHANGED <<df_zt, result, report, x, ret>>

NextNorm == NormalizeStep \/ FilterNormalized

SpecNorm == InitNorm /\ [][NextNorm]_vars

----------------------------------------------------------------------------
(* Vocabulary of the properties                                            *)

AnyOf(cands, df) == \E i \in 1..Len(cands) : HasCol(df, cands[i])

AllFields(df) ==
    /\ AnyOf(price_cols, df) /\ AnyOf(mktcap_cols, df)
    /\ AnyOf(lianban_cols, df) /\ AnyOf(times_cols, df)

HasId(df) == HasCol(df, col_code) /\ HasCol(df, col_name)

Filtered == pc \in {"filtered", "refiltered"}

\* The input row's coerced value of a field, read in the column that resolves.
PriceOf(df, i) == to_numeric(df.rows[i][ResolveColumn(price_cols, df)])
DaysOf(df, i) == to_numeric(df.rows[i][ResolveColumn(lianban_cols, df)])
RawCapOf(df, i) == to_numeric(df.rows[i][ResolveColumn(mktcap_cols, df)])
CountOf(df, i) ==
    LET c == ResolveColumn(times_cols, df)
    IN  IF c = "zhangtingtongji"
        THEN to_numeric(extract_half_year_times(df.rows[i][c]))
        ELSE to_numeric(df.rows[i][c])

\* Some non-null market cap of the table is above 1000.
InYuan(df) ==
    \E j \in 1..Len(df.rows) :
        RawCapOf(df, j).t = "num" /\ Less(Num(1000, 0), RawCapOf(df, j))

CapOf(df, i) == IF InYuan(df) THEN Div1e8(RawCapOf(df, i)) ELSE RawCapOf(df, i)

\* The five conditions on the coerced, unit-normalised values of input row i.
Qualifies(df, i) ==
    /\ LtNum(PriceOf(df, i), 30)
    /\ LtNum(CapOf(df, i), 200)
    /\ GeNum(CountOf(df, i), 3)
    /\ LtNum(DaysOf(df, i), 4)
    /\ EqNum(DaysOf(df, i), 1)

Codes(df) == {df.rows[i][col_code] : i \in 1..Len(df.rows)}

----------------------------------------------------------------------------
(* C1: when all four fields resolve, every row of the table filter_stocks  *)
(* returns has price < 30, market cap < 200, half-year count >= 3,         *)
(* consecutive days < 4 and consecutive days = 1, read in its own columns. *)
C1_OutputRowsSatisfyAll ==
    (Filtered /\ AllFields(df_zt) /\ ~result.raised) =>
        \A i \in 1..Len(result.value.rows) :
            LET r == result.value.rows[i]
            IN  /\ LtNum(r["zuixinjia"], 30)
                /\ LtNum(r["zongshizhi(yi)"], 200)
                /\ GeNum(r["jinbannianzhangtingcishu"], 3)
                /\ LtNum(r["lianbanshu"], 4)
                /\ EqNum(r["lianbanshu"], 1)

\* A two-row table from which one row was returned and one was not.
C1_Witness ==
    /\ pc = "filtered" /\ AllFields(df_zt) /\ ~result.raised
    /\ Len(df_zt.rows) = 2
    /\ Len(result.value.rows) = 1

(* C2: with code, name and the four fields present, the returned rows are  *)
(* exactly the input rows whose coerced, unit-normalised values satisfy    *)
(* all five conditions: none dropped, none duplicated, each with the code  *)
(* and name of the input row it came from.                                 *)
C2_ExactlyQualifyingRows ==
    (Filtered /\ AllFields(df_zt) /\ HasId(df_zt)) =>
        LET Q == {i \in 1..Len(df_zt.rows) : Qualifies(df_zt, i)}
            out == result.value
        IN  /\ ~result.raised
            /\ Len(out.rows) = Cardinality(Q)
            /\ Codes(out) = {df_zt.rows[i][col_code] : i \in Q}
            /\ \A k \in 1..Len(out.rows) :
                   \E i \in Q : /\ out.rows[k][col_code] = df_zt.rows[i][col_code]
                                /\ out.rows[k][col_name] = df_zt.rows[i][col_name]

\* Two rows alike but for the price, 29 and 30: only the first code returns.
C2_Witness ==
    /\ pc = "filtered" /\ AllFields(df_zt) /\ HasId(df_zt)
    /\ Len(df_zt.rows) = 2
    /\ Qualifies(df_zt, 1)
    /\ PriceOf(df_zt, 2) = Num(30, 0)
    /\ CapOf(df_zt, 2) = CapOf(df_zt, 1)
    /\ DaysOf(df_zt, 2) = DaysOf(df_zt, 1)
    /\ CountOf(df_zt, 2) = CountOf(df_zt, 1)
    /\ Codes(result.value) = {df_zt.rows[1][col_code]}

----------------------------------------------------------------------------
\* Some field has no column.
Unresolved(df) == ~AllFields(df)

\* Table out holds every row of df, in order and under the same labels, and
\* agrees with df on the cells of the columns cols.
SameRowsOn(out, df, cols) ==
    /\ out.index = df.index
    /\ Len(out.rows) = Len(df.rows)
    /\ \A i \in 1..Len(df.rows) : \A c \in cols : out.rows[i][c] = df.rows[i][c]

\* The market cap has no column, the three other fields have one.
OnlyCapMissing(df) ==
    /\ ~AnyOf(mktcap_cols, df)
    /\ AnyOf(price_cols, df) /\ AnyOf(lianban_cols, df) /\ AnyOf(times_cols, df)

\* The four conditions that do not read the market cap, on input row i.
QualifiesButCap(df, i) ==
    /\ LtNum(PriceOf(df, i), 30)
    /\ GeNum(CountOf(df, i), 3)
    /\ LtNum(DaysOf(df, i), 4)
    /\ EqNum(DaysOf(df, i), 1)

(* C3, as stated: a table without a market-cap column, the other three     *)
(* fields present, is still filtered by the other four conditions: the     *)
(* rows returned are exactly those that satisfy them.                      *)
C3_Original ==
    (Filtered /\ OnlyCapMissing(df_zt)) =>
        /\ ~result.raised
        /\ Len(result.value.rows) =
               Cardinality({i \in 1..Len(df_zt.rows) : QualifiesButCap(df_zt, i)})
        /\ \A k \in 1..Len(result.value.rows) :
               \E i \in 1..Len(df_zt.rows) :
                   /\ QualifiesButCap(df_zt, i)
                   /\ \A c \in Range(result.value.columns) \cap Range(df_zt.columns) :
                          result.value.rows[k][c] = df_zt.rows[i][c]

(* C3, amended: a table without a market-cap column, the other three       *)
(* fields present, is not filtered at all: no condition is applied and     *)
(* every input row is returned, in input order, rows that fail one of the  *)
(* other four conditions included; the columns are the code and the name   *)
(* when the table has both.                                                *)
C3_CapMissingNoFiltering ==
    (Filtered /\ OnlyCapMissing(df_zt)) =>
        /\ ~result.raised
        /\ SameRowsOn(result.value, df_zt, Range(result.value.columns) \cap Range(df_zt.columns))
        /\ HasId(df_zt) => result.value.columns = <<col_code, col_name>>

\* A row that fails price < 30 is returned from a table without market cap.
C3_Witness ==
    /\ pc = "filtered" /\ OnlyCapMissing(df_zt) /\ HasId(df_zt)
    /\ \E i \in 1..Len(df_zt.rows) :
          /\ ~QualifiesButCap(df_zt, i)
          /\ df_zt.rows[i][col_code] \in Codes(result.value)
    /\ \E i \in 1..Len(df_zt.rows) : QualifiesButCap(df_zt, i)

(* C4, as stated: when a field has no column, every input row is returned  *)
(* in input order with exactly the two columns code and name, for every    *)
(* non-empty table, those without a code or name column included.          *)
C4_Original ==
    (Filtered /\ Unresolved(df_zt)) =>
        /\ ~result.raised
        /\ result.value.columns = <<col_code, col_name>>
        /\ result.value.index = df_zt.index
        /\ Len(result.value.rows) = Len(df_zt.rows)

(* C4, amended: when a field has no column, every input row is returned in *)
(* input order and nothing is filtered; a table that has both the code and *)
(* the name column comes back with exactly these two columns, and a table  *)
(* that lacks either comes back whole: all its columns, and after them the *)
(* parsed helper column when the composite count column is present.        *)
C4_PassThrough ==
    (Filtered /\ Unresolved(df_zt)) =>
        /\ ~result.raised
        /\ IF HasId(df_zt)
           THEN /\ result.value.columns = <<col_code, col_name>>
                /\ SameRowsOn(result.value, df_zt, {col_code, col_name})
           ELSE /\ result.value.columns =
                      IF HasCol(df_zt, "zhangtingtongji")
                      THEN Append(df_zt.columns, parsed_col) ELSE df_zt.columns
                /\ SameRowsOn(result.value, df_zt, Range(df_zt.columns))

\* Both shapes of the pass-through have been returned: here the whole table
\* with the helper column, from a table without a name column.
C4_Witness ==
    /\ pc = "filtered" /\ Unresolved(df_zt) /\ ~HasId(df_zt)
    /\ HasCol(df_zt, col_code)
    /\ HasCol(result.value, parsed_col)
    /\ Len(result.value.rows) = 2

(* C5: with code, name and the four fields present, filtering the result   *)
(* of filter_stocks again returns that result unchanged: same rows, order, *)
(* labels, column names and cell values, also when the result is empty.    *)
C5_Idempotent ==
    (pc = "refiltered" /\ AllFields(df_zt) /\ HasId(df_zt)) => again = result

\* The first pass rescaled the market caps, reordered the two rows it kept
\* and renamed their columns; the second pass has run on that.
C5_Witness ==
    /\ pc = "refiltered" /\ AllFields(df_zt) /\ HasId(df_zt)
    /\ InYuan(df_zt)
    /\ Len(result.value.rows) = 2
    /\ result.value.rows[1][col_code] = df_zt.rows[2][col_code]
    /\ result.value.columns # df_zt.columns
    /\ ~again.raised

\* A cell that is missing or is a string that reads as no number.
NotNumeric(c) == c.t = "nan" \/ (c.t = "str" /\ ~PyFloat(c.s).ok)

RawCell(df, cands, i) == df.rows[i][ResolveColumn(cands, df)]

\* Input row i has a price, market-cap or days cell that is no number.
BadCell(df, i) ==
    \/ NotNumeric(RawCell(df, price_cols, i))
    \/ NotNumeric(RawCell(df, mktcap_cols, i))
    \/ NotNumeric(RawCell(df, lianban_cols, i))

\* df without its row i.
WithoutRow(df, i) ==
    Take(df, Positions2Seq((1..Len(df.rows)) \ {i}, Len(df.rows)))

(* C10, as stated: a row whose price, market-cap or days cell is           *)
(* non-numeric or missing never appears in the output, and the other rows  *)
(* are filtered as if that row were absent.                                *)
C10_Original ==
    (Filtered /\ AllFields(df_zt) /\ HasId(df_zt)) =>
        /\ ~result.raised
        /\ \A i \in 1..Len(df_zt.rows) :
              BadCell(df_zt, i) =>
                 /\ df_zt.rows[i][col_code] \notin Codes(result.value)
                 /\ result.value.rows = filter_stocks(WithoutRow(df_zt, i)).value.rows

(* C10, amended: a row whose price, market-cap or days cell is non-numeric *)
(* or missing never appears in the output and nothing raises; the other    *)
(* rows are filtered as if that row were absent when the row's own         *)
(* market-cap cell is null after coercion (a numeric market cap of such a  *)
(* row still counts in the column maximum that decides the unit).          *)
C10_BadCellExcluded ==
    (Filtered /\ AllFields(df_zt) /\ HasId(df_zt)) =>
        /\ ~result.raised
        /\ \A i \in 1..Len(df_zt.rows) :
              BadCell(df_zt, i) =>
                 /\ df_zt.rows[i][col_code] \notin Codes(result.value)
                 /\ NotNumeric(RawCell(df_zt, mktcap_cols, i)) =>
                       result.value.rows = filter_stocks(WithoutRow(df_zt, i)).value.rows

\* A row with a null market cap beside a row that is returned.
C10_Witness ==
    /\ pc = "filtered" /\ AllFields(df_zt) /\ HasId(df_zt)
    /\ Len(df_zt.rows) = 2
    /\ NotNumeric(RawCell(df_zt, mktcap_cols, 1))
    /\ Codes(result.value) = {df_zt.rows[2][col_code]}

----------------------------------------------------------------------------
\* The three sort keys of a row of an output table: count, days, market cap.
KeysOf(r) == <<r["jinbannianzhangtingcishu"], r["lianbanshu"], r["zongshizhi(yi)"]>>

KeySeq(df) == [i \in 1..Len(df.rows) |-> KeysOf(df.rows[i])]

\* Keys a come strictly before keys b: higher count, then higher days, then
\* lower market cap.
Precedes(a, b) ==
    \/ Less(b[1], a[1])
    \/ a[1] = b[1] /\ Less(b[2], a[2])
    \/ a[1] = b[1] /\ a[2] = b[2] /\ Less(a[3], b[3])

\* Where the row at place k of out stood in df (the codes of df are distinct).
PlaceIn(df, out, k) == CHOOSE i \in 1..Len(df.rows) : df.rows[i] = out.rows[k]

ExampleKeys ==
    <<<<Num(5, 0), Num(2, 0), Num(50, 0)>>,
      <<Num(5, 0), Num(2, 0), Num(30, 0)>>,
      <<Num(3, 0), Num(4, 0), Num(10, 0)>>>>

ExampleSorted == <<ExampleKeys[2], ExampleKeys[1], ExampleKeys[3]>>

(* C6: the sort step returns a permutation of its rows under the labels    *)
(* 0..n-1, ordered by count descending, then days descending, then market  *)
(* cap ascending, rows equal on all three keys keeping their input order;  *)
(* (5,2,50), (5,2,30), (3,4,10) come out as (5,2,30), (5,2,50), (3,4,10).  *)
C6_StableThreeKeySort ==
    pc = "sorted" =>
        LET out == result.value
            n == Len(df_zt.rows)
        IN  /\ ~result.raised
            /\ out.columns = df_zt.columns
            /\ Len(out.rows) = n
            /\ out.index = [i \in 1..n |-> i - 1]
            /\ \A i \in 1..n : \E k \in 1..n : out.rows[k] = df_zt.rows[i]
            /\ \A k, l \in 1..n :
                  k < l =>
                     /\ ~Precedes(KeysOf(out.rows[l]), KeysOf(out.rows[k]))
                     /\ KeysOf(out.rows[k]) = KeysOf(out.rows[l]) =>
                            PlaceIn(df_zt, out, k) < PlaceIn(df_zt, out, l)
            /\ KeySeq(df_zt) = ExampleKeys => KeySeq(out) = ExampleSorted

\* The example of the claim has been sorted.
C6_Witness ==
    /\ pc = "sorted"
    /\ KeySeq(df_zt) = ExampleKeys
    /\ KeySeq(result.value) = ExampleSorted

----------------------------------------------------------------------------
\* The part of s between its first '/' and the next '/' (or the end).
IsSecondPart(s, b) ==
    \E i \in 1..Len(s) : \E j \in (i + 1)..(Len(s) + 1) :
        /\ s[i] = "/"
        /\ \A k \in 1..(i - 1) : s[k] # "/"
        /\ \A k \in (i + 1)..(j - 1) : s[k] # "/"
        /\ j = Len(s) + 1 \/ s[j] = "/"
        /\ b = SubSeq(s, i + 1, j - 1)

\* s reads as a number with its integer part in the first d characters:
\* digits, at most one '.', at least one digit.
ReadsAt(s, d) ==
    LET whole == SubSeq(s, 1, d)
        frac == SubSeq(s, d + 1, Len(s))
    IN  /\ AllDigits(whole)
        /\ \/ frac = <<>> /\ d >= 1
           \/ /\ frac # <<>> /\ frac[1] = "." /\ AllDigits(Tail(frac))
              /\ d + Len(frac) >= 2

ReadsAsNumber(s) == \E d \in 0..Len(s) : ReadsAt(s, d)

(* C7: extract_half_year_times is total and returns an integer: 0 for a    *)
(* missing cell; for a string with '/' the integer value of its second     *)
(* slash-separated part, and 0 when that part is no integer; for a value   *)
(* without '/' the integer part of its numeric reading; 0 for anything     *)
(* else.  "5/3" gives 3, "7" gives 7, "abc", "2/x" and "5/" give 0.        *)
C7_ParserTotal ==
    pc = "parsed" =>
        /\ ret.t = "num" /\ ret.e >= 0 /\ ret.m >= 0
        /\ x.t = "nan" => ret = Num(0, 0)
        /\ (x.t = "str" /\ Positions(x.s, "/") # {}) =>
              \A b \in {SubSeq(x.s, i, j) : i \in 1..(Len(x.s) + 1), j \in 0..Len(x.s)} :
                  IsSecondPart(x.s, b) =>
                      ret = IF b # <<>> /\ AllDigits(b) THEN Num(DigitsValue(b), 0)
                            ELSE Num(0, 0)
        /\ (x.t = "str" /\ Positions(x.s, "/") = {}) =>
              /\ \A d \in 0..Len(x.s) :
                     ReadsAt(x.s, d) => ret = Num(DigitsValue(SubSeq(x.s, 1, d)), 0)
              /\ ~ReadsAsNumber(x.s) => ret = Num(0, 0)
        /\ x = Num(7, 0) => ret = Num(7, 0)
        /\ x = Num(79, -1) => ret = Num(7, 0)
        /\ x = Str(<<"5", "/", "3">>) => ret = Num(3, 0)
        /\ x = Str(<<"7">>) => ret = Num(7, 0)
        /\ x = Str(<<"a", "b", "c">>) => ret = Num(0, 0)
        /\ x = Str(<<"2", "/", "x">>) => ret = Num(0, 0)
        /\ x = Str(<<"5", "/">>) => ret = Num(0, 0)

\* "5/3" has been parsed to 3.
C7_Witness ==
    /\ pc = "parsed"
    /\ x = Str(<<"5", "/", "3">>)
    /\ ret = Num(3, 0)

----------------------------------------------------------------------------
CapColumn(df) == [i \in 1..Len(df.rows) |-> df.rows[i]["zongshizhi"]]

\* b is a divided by 1e8 (a missing cell stays missing).
IsScaledDown(a, b) ==
    IF a.t = "num" /\ a.m # 0
    THEN b.t = "num" /\ b.m = a.m /\ b.e = a.e - 8
    ELSE b = a

\* Some non-null cell of the column is above 1000.
SomeAbove1000(col) ==
    \E i \in 1..Len(col) : col[i].t = "num" /\ Less(Num(1000, 0), col[i])

(* C8: the market-cap column is rescaled as a whole or not at all: when    *)
(* its largest non-null cell is above 1000 every cell is divided by 1e8    *)
(* ([5e9, 8e9] becomes [50, 80]); when it is at most 1000, 1000 included,  *)
(* or every cell is null, the table is unchanged ([50, 80, 120] stays);    *)
(* and the rows filter_stocks keeps are those whose rescaled cap is < 200. *)
C8_UnitNormalization ==
    pc \in {"normalized", "filtered"} =>
        LET before == CapColumn(df_zt)
            after == CapColumn(result.value)
            n == Len(df_zt.rows)
        IN  /\ Len(after) = n
            /\ IF SomeAbove1000(before)
               THEN \A i \in 1..n : IsScaledDown(before[i], after[i])
               ELSE result.value = df_zt
            /\ before = <<Num(5, 9), Num(8, 9)>> => after = <<Num(50, 0), Num(80, 0)>>
            /\ before = <<Num(50, 0), Num(80, 0), Num(120, 0)>> => after = before
            /\ before = <<Num(1000, 0)>> => after = before
            /\ pc = "filtered" =>
                  /\ ~again.raised
                  /\ Codes(again.value) =
                        {df_zt.rows[i][col_code] : i \in {j \in 1..n : LtNum(after[j], 200)}}

\* [5e9, 8e9] has become [50, 80] and both rows were kept by the filter.
C8_Witness ==
    /\ pc = "filtered"
    /\ CapColumn(df_zt) = <<Num(5, 9), Num(8, 9)>>
    /\ CapColumn(result.value) = <<Num(50, 0), Num(80, 0)>>
    /\ Len(again.value.rows) = 2

----------------------------------------------------------------------------
(* C9: every failure is non-fatal: whatever the provider does (raises,     *)
(* returns an empty table, returns any columns and cells), no exception    *)
(* leaves filter_stocks or main, and main ends on one of its three         *)
(* reports; in particular a table with the four fields but without the     *)
(* code or the name column does not make filter_stocks raise.              *)
C9_AllFailuresNonFatal ==
    /\ pc # "raised"
    /\ ~result.raised
    /\ pc = "done" => report \in {"no data", "no qualifying rows", "list"}

====
